---- MODULE Spec2Model ----
(***************************************************************************)
(* Model of technical-analysis/scripts/analyze.py: the on-disk cache of    *)
(* one (ticker, period) identity, the incremental fetch in analyze_stock,  *)
(* and the trend classification derived from the simple moving averages.   *)
(*                                                                         *)
(* A DataFrame is a record [tag, bars, ind]: bars is the sequence of rows  *)
(* (index date, Close), ind tells whether the indicator columns have been  *)
(* added to it.  Prices are integers (cents).  Python's None and an        *)
(* unpickled object that is no DataFrame have the same record shape.       *)
(***************************************************************************)
EXTENDS Integers, Sequences, FiniteSets, TLC

\* ------------------------------------------------------------------ bounds
MaxDate == 2        \* dates are 1..MaxDate
MaxClose == 2       \* closes of provider bars are 1..MaxClose
MaxResp == 2        \* a provider response holds at most MaxResp bars
MaxCalls == 3       \* invocations of analyze_stock by the sequential caller
MaxSwing == 2       \* closes of the long series are -MaxSwing..MaxSwing

\* ------------------------------------------------------- program constants
SMA_20 == 20
SMA_50 == 50
SMA_200 == 200

Procs == {1, 2}
Ticker == "aapl"

VARIABLES
    file,      \* the cache file of the identity: [kind, ts, data]
    prior,     \* the file as it was when the write in progress truncated it
    clock,     \* datetime.now()
    budget,    \* invocations each caller may still start
    pc,        \* position of each invocation
    cached,    \* cached_data of each invocation
    data,      \* data (the working series) of each invocation
    ts,        \* the timestamp set_cached_data took (line 51)
    req,       \* the request the invocation made to the provider
    resp,      \* what the provider answered (new_data / the cold fetch)
    writes,    \* set_cached_data calls the invocation made
    result     \* the record analyze_stock returned

vars == <<file, prior, clock, budget, pc, cached, data, ts, req, resp, writes, result>>

\* -------------------------------------------------------------- data model
None == [tag |-> "None", bars |-> <<>>, ind |-> FALSE]
NotAFrame == [tag |-> "object", bars |-> <<>>, ind |-> FALSE]
Frame(bars) == [tag |-> "frame", bars |-> bars, ind |-> FALSE]
EmptyFrame == Frame(<<>>)

Bar(d, c) == [date |-> d, close |-> c]

Dates(s) == {s[i].date : i \in 1..Len(s)}
UniqueDates(s) == \A i, j \in 1..Len(s) : i # j => s[i].date # s[j].date
Increasing(s) == \A i \in 1..Len(s) - 1 : s[i].date < s[i + 1].date

\* The provider's possible answers: ordered series with unique dates.
BarSeqs == UNION {[1..n -> [date : 1..MaxDate, close : 1..MaxClose]] : n \in 0..MaxResp}
Responses == {s \in BarSeqs : Increasing(s)}

\* The cache file.
NoFile == [kind |-> "none", ts |-> 0, data |-> None]
Garbage == [kind |-> "garbage", ts |-> 0, data |-> None]
NoKey == [kind |-> "nokey", ts |-> 0, data |-> None]
Torn == [kind |-> "torn", ts |-> 0, data |-> None]
Entry(t, d) == [kind |-> "entry", ts |-> t, data |-> d]

\* ------------------------------------------------------------ result records
Pending == [pending |-> TRUE]
ErrorRecord(msg) == [error |-> msg]
NoDataMsg == "No data found for ticker " \o Ticker

\* ------------------------------------------------------------- Cache Store
\* get_cached_data once get_cache_path has returned: a missing file is absent,
\* a failure of pickle.load or of cached['data'] is swallowed, and otherwise
\* the value stored under 'data' is returned as it is.
ReadFile(f) == IF f.kind = "entry" THEN f.data ELSE None

\* ------------------------------------------------- Incremental Fetch merge
\* Variant of Duplicated: keep='first', a row is a duplicate when an earlier
\* row has the same date.
DuplicatedFirst(s) == [i \in 1..Len(s) |-> \E j \in 1..(i - 1) : s[j].date = s[i].date]

\* data.index.duplicated(keep='last'): row i is a duplicate when a later row
\* has the same date.
Duplicated(s) == [i \in 1..Len(s) |-> \E j \in (i + 1)..Len(s) : s[j].date = s[i].date]

RECURSIVE Rows(_, _, _)
\* data[mask]: the rows whose mask is true, in their order.
Rows(s, mask, i) ==
    IF i > Len(s) THEN <<>>
    ELSE (IF mask[i] THEN <<s[i]>> ELSE <<>>) \o Rows(s, mask, i + 1)

\* pd.concat([cached_data, new_data]) then data[~data.index.duplicated(keep='last')]
Merge(old, new) ==
    LET cat == old \o new
        dup == Duplicated(cat)
    IN  Rows(cat, [i \in 1..Len(cat) |-> ~dup[i]], 1)

\* cached_data.index[-1]
LastDate(s) == s[Len(s)].date

\* start=last_date + timedelta(days=1)
SinceRequest(s) == [kind |-> "since", start |-> LastDate(s) + 1]
PeriodRequest == [kind |-> "period", start |-> 0]
NoRequest == [kind |-> "none", start |-> 0]

\* ------------------------------------------------------ Indicator Pipeline
RECURSIVE SumCloses(_, _, _)
\* the sum of the closes of rows from..to (halving keeps the evaluation shallow)
SumCloses(s, from, to) ==
    IF from > to THEN 0
    ELSE IF from = to THEN s[from].close
    ELSE LET mid == (from + to) \div 2
         IN  SumCloses(s, from, mid) + SumCloses(s, mid + 1, to)

\* ta.sma(data['Close'], length=n) at the latest row: NaN (<<>>) until n bars
\* exist, else the mean of the last n closes, kept exact as <<sum, n>>.
Sma(s, n) ==
    IF Len(s) < n THEN <<>> ELSE <<SumCloses(s, Len(s) - n + 1, Len(s)), n>>

\* latest['SMA_n'] if pd.notna(latest['SMA_n']) else None
NotNa(v) == v # <<>>
\* Python truthiness of sma_val: None and 0.0 are false.
Truthy(v) == NotNa(v) /\ v[1] # 0
\* current_price > sma_val and current_price < sma_val, on exact values
Above(price, v) == price * v[2] > v[1]
Below(price, v) == price * v[2] < v[1]

\* round(x, 2) of the mean a/n of prices in cents: round half to even.
RoundHalfEven(a, n) ==
    LET q == a \div n
        r == a - q * n
    IN  IF 2 * r < n THEN q
        ELSE IF 2 * r > n THEN q + 1
        ELSE IF q % 2 = 0 THEN q ELSE q + 1

\* safe_round: None (<<>>) for NaN, else the rounded value
SafeRound(v) == IF NotNa(v) THEN <<RoundHalfEven(v[1], v[2])>> ELSE <<>>

\* ----------------------------------------------------- Snapshot Synthesizer
CurrentPrice(s) == s[Len(s)].close
PrevClose(s) == IF Len(s) > 1 THEN s[Len(s) - 1].close ELSE CurrentPrice(s)

\* lines 196-205
Trend(price, sma50, sma200) ==
    IF Truthy(sma50) /\ Truthy(sma200)
    THEN IF Above(price, sma50) /\ Above(price, sma200) THEN "bullish"
         ELSE IF Below(price, sma50) /\ Below(price, sma200) THEN "bearish"
         ELSE "neutral"
    ELSE "neutral"

\* lines 208-209
PriceVs(price, sma) ==
    IF Truthy(sma) /\ Above(price, sma) THEN "above"
    ELSE IF Truthy(sma) THEN "below" ELSE "N/A"

Upper(t) == IF t = "aapl" THEN "AAPL" ELSE t

\* the result dictionary of lines 219-244, restricted to the fields derived
\* from the closing prices
Snapshot(s) ==
    LET price == CurrentPrice(s)
        sma50 == Sma(s, SMA_50)
        sma200 == Sma(s, SMA_200)
    IN  [ticker |-> Upper(Ticker),
         current_price |-> price,
         price_change_1d |-> price - PrevClose(s),
         sma_20 |-> SafeRound(Sma(s, SMA_20)),
         sma_50 |-> SafeRound(sma50),
         sma_200 |-> SafeRound(sma200),
         price_vs_sma_50 |-> PriceVs(price, sma50),
         price_vs_sma_200 |-> PriceVs(price, sma200),
         trend |-> Trend(price, sma50, sma200)]

SnapshotKeys ==
    {"ticker", "current_price", "price_change_1d", "sma_20", "sma_50", "sma_200",
     "price_vs_sma_50", "price_vs_sma_200", "trend"}

\* ---------------------------------------------------------- analyze_stock
\* str(e) of the exceptions the try block of analyze_stock can see
MkdirError == "OSError: cannot create the cache directory"
ProviderError == "provider failure"
AttributeError == "object has no attribute 'index'"
IndexError == "index -1 is out of bounds for axis 0 with size 0"
IndicatorError == "indicator computation failure"

\* Variant of Caught: the exception leaves analyze_stock instead of being
\* turned into a record.
Uncaught(msg) == [raised |-> msg]

\* except Exception as e: return {"error": str(e)}
Caught(msg) == ErrorRecord(msg)

\* Variant of HasNew: an empty response is merged and written back too.
HasNewAlways(r) == TRUE
\* Variant of ColdEmpty: the early return of line 150 is missing, so an empty
\* cold fetch reaches set_cached_data.
ColdEmptyMissed(r) == FALSE

\* not new_data.empty (line 135)
HasNew(r) == r # <<>>
\* data.empty (line 149)
ColdEmpty(r) == r = <<>>

Return(p, rec) ==
    /\ result' = [result EXCEPT ![p] = rec]
    /\ pc' = [pc EXCEPT ![p] = "done"]

\* A caller invokes analyze_stock(ticker, period).
Call(p) ==
    /\ pc[p] \in {"idle", "done"}
    /\ budget[p] > 0
    /\ budget' = [budget EXCEPT ![p] = budget[p] - 1]
    /\ pc' = [pc EXCEPT ![p] = "read"]
    /\ cached' = [cached EXCEPT ![p] = None]
    /\ data' = [data EXCEPT ![p] = None]
    /\ ts' = [ts EXCEPT ![p] = 0]
    /\ req' = [req EXCEPT ![p] = NoRequest]
    /\ resp' = [resp EXCEPT ![p] = None]
    /\ writes' = [writes EXCEPT ![p] = 0]
    /\ result' = [result EXCEPT ![p] = Pending]
    /\ UNCHANGED <<file, prior, clock>>

\* cached_data = get_cached_data(ticker, period): get_cache_path creates the
\* cache directory outside any try of get_cached_data, so its failure reaches
\* the except clause of analyze_stock.
GetCached(p) ==
    /\ pc[p] = "read"
    /\ \E mkdirOk \in BOOLEAN :
         IF mkdirOk
         THEN /\ cached' = [cached EXCEPT ![p] = ReadFile(file)]
              /\ pc' = [pc EXCEPT ![p] = "fetch"]
              /\ UNCHANGED result
         ELSE /\ Return(p, Caught(MkdirError))
              /\ UNCHANGED cached
    /\ UNCHANGED <<file, prior, clock, budget, data, ts, req, resp, writes>>

\* Warm path, lines 128-144: the provider is asked for the bars since the day
\* after the last cached date; it fails or answers with an ordered series.
FetchSince(p) ==
    /\ pc[p] = "fetch"
    /\ cached[p] # None
    /\ IF cached[p].tag # "frame"
       THEN Return(p, Caught(AttributeError)) /\ UNCHANGED <<data, req, resp>>
       ELSE IF cached[p].bars = <<>>
       THEN Return(p, Caught(IndexError)) /\ UNCHANGED <<data, req, resp>>
       ELSE /\ req' = [req EXCEPT ![p] = SinceRequest(cached[p].bars)]
            /\ \/ Return(p, Caught(ProviderError)) /\ UNCHANGED <<data, resp>>
               \/ \E r \in Responses :
                    /\ resp' = [resp EXCEPT ![p] = Frame(r)]
                    /\ UNCHANGED result
                    /\ IF HasNew(r)
                       THEN /\ data' = [data EXCEPT ![p] = Frame(Merge(cached[p].bars, r))]
                            /\ pc' = [pc EXCEPT ![p] = "mkdir"]
                       ELSE /\ data' = [data EXCEPT ![p] = cached[p]]
                            /\ pc' = [pc EXCEPT ![p] = "indicators"]
    /\ UNCHANGED <<file, prior, clock, budget, cached, ts, writes>>

\* Cold path, lines 145-153: the provider is asked for the full period.
FetchPeriod(p) ==
    /\ pc[p] = "fetch"
    /\ cached[p] = None
    /\ req' = [req EXCEPT ![p] = PeriodRequest]
    /\ \/ Return(p, Caught(ProviderError)) /\ UNCHANGED <<data, resp>>
       \/ \E r \in Responses :
            /\ resp' = [resp EXCEPT ![p] = Frame(r)]
            /\ data' = [data EXCEPT ![p] = Frame(r)]
            /\ IF ColdEmpty(r)
               THEN Return(p, ErrorRecord(NoDataMsg))
               ELSE pc' = [pc EXCEPT ![p] = "mkdir"] /\ UNCHANGED result
    /\ UNCHANGED <<file, prior, clock, budget, cached, ts, writes>>

\* set_cached_data, line 47 and lines 50-53: get_cache_path is called before
\* the try, so a failure of mkdir leaves set_cached_data as an exception.
WriteMkdir(p) ==
    /\ pc[p] = "mkdir"
    /\ writes' = [writes EXCEPT ![p] = writes[p] + 1]
    /\ \E mkdirOk \in BOOLEAN :
         IF mkdirOk
         THEN /\ ts' = [ts EXCEPT ![p] = clock]
              /\ clock' = clock + 1
              /\ pc' = [pc EXCEPT ![p] = "open"]
              /\ UNCHANGED result
         ELSE /\ Return(p, Caught(MkdirError))
              /\ UNCHANGED <<ts, clock>>
    /\ UNCHANGED <<file, prior, budget, cached, data, req, resp>>

\* set_cached_data, line 54: open(cache_file, 'wb') truncates the file; its
\* failure is swallowed by the except clause of set_cached_data.
WriteOpen(p) ==
    /\ pc[p] = "open"
    /\ \E openOk \in BOOLEAN :
         IF openOk
         THEN /\ prior' = file
              /\ file' = Torn
              /\ pc' = [pc EXCEPT ![p] = "dump"]
         ELSE /\ pc' = [pc EXCEPT ![p] = "indicators"]
              /\ UNCHANGED <<file, prior>>
    /\ UNCHANGED <<clock, budget, cached, data, ts, req, resp, writes, result>>

\* set_cached_data, line 55: pickle.dump writes the record and the file is
\* closed; a failure leaves what was written so far and is swallowed.
WriteDump(p) ==
    /\ pc[p] = "dump"
    /\ \E dumpOk \in BOOLEAN :
         file' = IF dumpOk THEN Entry(ts[p], data[p]) ELSE Torn
    /\ prior' = NoFile
    /\ pc' = [pc EXCEPT ![p] = "indicators"]
    /\ UNCHANGED <<clock, budget, cached, data, ts, req, resp, writes, result>>

\* lines 155-246: the indicator columns are added to data in place (data is
\* cached_data itself when the provider had nothing new) and the latest row
\* is turned into the result; any exception becomes an error record.
Indicators(p) ==
    /\ pc[p] = "indicators"
    /\ IF data[p].bars = <<>>
       THEN Return(p, ErrorRecord(NoDataMsg)) /\ UNCHANGED <<data, cached>>
       ELSE \/ Return(p, Caught(IndicatorError)) /\ UNCHANGED <<data, cached>>
            \/ /\ Return(p, Snapshot(data[p].bars))
               /\ data' = [data EXCEPT ![p].ind = TRUE]
               /\ cached' = IF cached[p] = data[p]
                            THEN [cached EXCEPT ![p].ind = TRUE] ELSE cached
    /\ UNCHANGED <<file, prior, clock, budget, ts, req, resp, writes>>

Step(p) ==
    \/ Call(p)
    \/ GetCached(p)
    \/ FetchSince(p)
    \/ FetchPeriod(p)
    \/ WriteMkdir(p)
    \/ WriteOpen(p)
    \/ WriteDump(p)
    \/ Indicators(p)

Next == \E p \in Procs : Step(p)

\* Cache states an invocation can find that it did not write itself: no file,
\* a file that cannot be unpickled, a record without 'data', and a record
\* whose 'data' is no DataFrame or an empty one.
ForeignFiles == {NoFile, Garbage, NoKey, Entry(0, NotAFrame), Entry(0, EmptyFrame)}

InitLocals ==
    /\ prior = NoFile
    /\ clock = 1
    /\ pc = [p \in Procs |-> "idle"]
    /\ cached = [p \in Procs |-> None]
    /\ data = [p \in Procs |-> None]
    /\ ts = [p \in Procs |-> 0]
    /\ req = [p \in Procs |-> NoRequest]
    /\ resp = [p \in Procs |-> None]
    /\ writes = [p \in Procs |-> 0]
    /\ result = [p \in Procs |-> Pending]

\* One caller invoking analyze_stock MaxCalls times, one call after another.
Init ==
    /\ file \in ForeignFiles
    /\ budget = [p \in Procs |-> IF p = 1 THEN MaxCalls ELSE 0]
    /\ InitLocals

Spec == Init /\ [][Next]_vars

\* Two processes each invoking analyze_stock once for the same identity, on a
\* cache that an earlier cold fetch wrote (or on none).
InitConc ==
    /\ file \in {NoFile} \cup {Entry(0, Frame(s)) : s \in Responses \ {<<>>}}
    /\ budget = [p \in Procs |-> 1]
    /\ InitLocals

SpecConc == InitConc /\ [][Next]_vars

\* The working series of one invocation at line 155, for series long enough
\* for the 50- and 200-bar averages: n bars dated 1..n whose closes are a up
\* to the last 50 bars, then b, and c on the last bar.
LongSeries(n, a, b, c) ==
    [i \in 1..n |-> Bar(i, IF i = n THEN c ELSE IF i > n - SMA_50 THEN b ELSE a)]

Lengths == {1, SMA_50 - 1, SMA_50, SMA_200 - 1, SMA_200, SMA_200 + 1}
Swing == (0 - MaxSwing)..MaxSwing

InitInd ==
    /\ file = NoFile
    /\ prior = NoFile
    /\ clock = 2
    /\ budget = [p \in Procs |-> 0]
    /\ \E n \in Lengths, a \in Swing, b \in Swing :
       \E c \in Swing \cup {(0 - (SMA_50 - 1)) * b} :
         /\ data = [p \in Procs |-> IF p = 1 THEN Frame(LongSeries(n, a, b, c)) ELSE None]
         /\ resp = [p \in Procs |-> IF p = 1 THEN Frame(LongSeries(n, a, b, c)) ELSE None]
    /\ pc = [p \in Procs |-> IF p = 1 THEN "indicators" ELSE "idle"]
    /\ cached = [p \in Procs |-> None]
    /\ ts = [p \in Procs |-> IF p = 1 THEN 1 ELSE 0]
    /\ req = [p \in Procs |-> IF p = 1 THEN PeriodRequest ELSE NoRequest]
    /\ writes = [p \in Procs |-> IF p = 1 THEN 1 ELSE 0]
    /\ result = [p \in Procs |-> Pending]

NextInd == \E p \in Procs : Indicators(p)

SpecInd == InitInd /\ [][NextInd]_vars

\* ------------------------------------------------------------------ claims
\* positions of an invocation after the fetch produced its working series
AfterFetch == {"mkdir", "open", "dump", "indicators", "done"}
IsError(rec) == DOMAIN rec = {"error"}
IsSnapshot(rec) == DOMAIN rec = SnapshotKeys

\* C1: analyze_stock always returns a record, which is either an error record
\* whose only key is 'error' or a complete snapshot record, whatever the cache
\* state, the provider outcome and the failures while computing indicators.
C1_ErrorOrSnapshot ==
    \A p \in Procs : pc[p] = "done" => IsError(result[p]) \/ IsSnapshot(result[p])

\* An invocation whose indicator computation failed after a warm fetch has
\* returned.
C1_Witness ==
    \E p \in Procs :
        /\ pc[p] = "done"
        /\ req[p].kind = "since"
        /\ result[p] = ErrorRecord(IndicatorError)

\* C2: a cache file that exists but is unreadable or malformed (cannot be
\* unpickled, lacks 'data', or holds a value that is no non-empty price
\* series) is reported as absent by get_cached_data, so that analyze_stock
\* takes the cold path.
C2_MalformedIsAbsent ==
    \A p \in Procs :
        pc[p] = "fetch" =>
            \/ cached[p] = None
            \/ cached[p].tag = "frame" /\ cached[p].bars # <<>>

\* C3: once the provider has returned data and set_cached_data is called, a
\* failure at any step of persisting the cache is swallowed: the invocation
\* returns the snapshot of its working series (or the error of a failed
\* indicator computation), never an error caused by the cache.
C3_WriteFailureSwallowed ==
    \A p \in Procs :
        pc[p] = "done" /\ writes[p] > 0 =>
            result[p] \in {Snapshot(data[p].bars), ErrorRecord(IndicatorError)}

\* C4: on the cold path, when the provider's full-period fetch returns zero
\* bars, analyze_stock returns exactly the "No data found" error record, never
\* calls set_cached_data, and no usable cache entry exists afterwards.
C4_EmptyColdFetch ==
    \A p \in Procs :
        pc[p] = "done" /\ req[p].kind = "period" /\ resp[p] = EmptyFrame =>
            /\ result[p] = [error |-> "No data found for ticker aapl"]
            /\ writes[p] = 0
            /\ ReadFile(file) = None

\* A cold fetch that returned zero bars has returned.
C4_Witness ==
    \E p \in Procs :
        pc[p] = "done" /\ req[p].kind = "period" /\ resp[p] = EmptyFrame

\* C5: on the warm path with a cached series whose last date is D, the
\* provider is asked for the bars from D + 1, and when it returns at least one
\* bar, all dated after D, the merged series is the cached bars followed by
\* the new bars, with no date twice.
C5_IncrementalMerge ==
    \A p \in Procs :
        (/\ pc[p] \in AfterFetch
         /\ req[p].kind = "since"
         /\ resp[p].bars # <<>>
         /\ \A i \in 1..Len(resp[p].bars) :
                resp[p].bars[i].date > cached[p].bars[Len(cached[p].bars)].date)
        => /\ req[p].start = cached[p].bars[Len(cached[p].bars)].date + 1
           /\ data[p].bars = cached[p].bars \o resp[p].bars
           /\ UniqueDates(data[p].bars)

\* C6: on the warm path, every date that occurs both in the cached series and
\* in the provider's response occurs once in the merged series, with the
\* provider's bar.
C6_OverlapKeepsNew ==
    \A p \in Procs :
        pc[p] \in AfterFetch /\ req[p].kind = "since" /\ resp[p].bars # <<>> =>
            \A i \in 1..Len(resp[p].bars) :
                resp[p].bars[i].date \in Dates(cached[p].bars) =>
                    /\ Cardinality({k \in 1..Len(data[p].bars) :
                            data[p].bars[k].date = resp[p].bars[i].date}) = 1
                    /\ \E k \in 1..Len(data[p].bars) : data[p].bars[k] = resp[p].bars[i]

\* A merge in which the provider revised the close of a cached date.
C6_Witness ==
    \E p \in Procs :
        /\ pc[p] = "mkdir"
        /\ req[p].kind = "since"
        /\ \E i \in 1..Len(resp[p].bars), j \in 1..Len(cached[p].bars) :
               /\ resp[p].bars[i].date = cached[p].bars[j].date
               /\ resp[p].bars[i].close # cached[p].bars[j].close

\* C7: set_cached_data replaces the entry atomically: an invocation that reads
\* the cache while another one is writing it, over an existing entry, obtains
\* the complete prior series or the complete new series, never a half-written
\* entry and never 'absent'.
C7_AtomicReplace ==
    [][\A p \in Procs :
          (/\ pc[p] = "read"
           /\ pc'[p] = "fetch"
           /\ prior.kind = "entry"
           /\ \E q \in Procs \ {p} : pc[q] = "dump")
          => \/ cached'[p] = prior.data
             \/ \E q \in Procs \ {p} : pc[q] = "dump" /\ cached'[p] = data[q]]_vars

\* C8: on the warm path, when the provider's response is empty, the invocation
\* makes no cache write: through the rest of the invocation the persisted
\* entry stays as it is (bars, timestamp, no indicator columns) and the
\* working series is the cached bars.
C8_NoWriteWhenNothingNew ==
    [][\A p \in Procs :
          (/\ req'[p].kind = "since"
           /\ resp'[p] = EmptyFrame
           /\ pc'[p] \in AfterFetch)
          => /\ file' = file
             /\ file'.data.ind = FALSE
             /\ writes'[p] = 0
             /\ pc'[p] \in {"indicators", "done"}
             /\ data'[p].bars = cached'[p].bars
             /\ data'[p].bars = file'.data.bars]_vars

\* A warm invocation whose provider had nothing new has returned a snapshot.
C8_Witness ==
    \E p \in Procs :
        /\ pc[p] = "done"
        /\ req[p].kind = "since"
        /\ resp[p] = EmptyFrame
        /\ IsSnapshot(result[p])

\* C9: in every snapshot record trend is "bullish" exactly when the current
\* price is greater than both the latest SMA-50 and SMA-200, "bearish" exactly
\* when it is less than both, and "neutral" otherwise, also when an average is
\* undefined; for fewer than 200 bars sma_200 is null and trend is "neutral".
C9_TrendClassification ==
    \A p \in Procs :
        pc[p] = "done" /\ IsSnapshot(result[p]) =>
            LET s == data[p].bars
                price == s[Len(s)].close
                sma50 == Sma(s, 50)
                sma200 == Sma(s, 200)
                defined == sma50 # <<>> /\ sma200 # <<>>
                bull == defined /\ price * 50 > sma50[1] /\ price * 200 > sma200[1]
                bear == defined /\ price * 50 < sma50[1] /\ price * 200 < sma200[1]
            IN  /\ result[p].trend = "bullish" <=> bull
                /\ result[p].trend = "bearish" <=> bear
                /\ result[p].trend = "neutral" <=> ~bull /\ ~bear
                /\ Len(s) < 200 => result[p].sma_200 = <<>> /\ result[p].trend = "neutral"

\* C10: starting from an absent cache and with a provider whose responses are
\* ordered series with unique dates, the persisted series and the working
\* series of every invocation have unique, strictly increasing dates.
C10_DatesIncreasing ==
    /\ file.kind = "entry" => Increasing(file.data.bars)
    /\ \A p \in Procs : Increasing(data[p].bars)

====
